---- MODULE Spec2Model ----
(***************************************************************************)
(* Model of stomputil.publisher.AsyncStompPublisher (publisher.py).        *)
(*                                                                         *)
(* Three kinds of thread act on one publisher object:                      *)
(*   - caller threads, which call send() and stop();                       *)
(*   - the publisher thread, which executes run();                         *)
(*   - the exiting thread, which executes the atexit handler _finalize().  *)
(*                                                                         *)
(* Times are integers counting tenths of a second, so that BEAT_TIME = 0.3 *)
(* is 3 and a timeout of -0.5 is -5.                                       *)
(***************************************************************************)
EXTENDS Integers, Sequences, FiniteSets, TLC

\* ---------------------------------------------------------------- bounds
\* Number of send() calls made in one behaviour.
MaxMsgs == 3
\* idle_time and finalize_time are only ever compared with a timeout; above
\* these values they are held (the caps exceed every timeout drawn in Init).
IdleCap == 9
FinCap == 9

\* ------------------------------------------------------ program constants
BEAT_TIME == 3
PUBLISHER_TIMESTAMP_HEADER == "_publisher_timestamp"

\* ------------------------------------------------------------ input sets
\* idle_timeout values given to createPublisher (tenths of a second).
IdleTimeouts == {-10, -5, 0, 5}
\* timeout values given to addExitHandler / _finalize.
ExitTimeouts == {-10, -5, 0, 5}
\* Python's None.
None == "None"
\* What time.time() returns to send().
Clock == "now"

VARIABLES
    should_stop,     \* self.__should_stop
    sending,         \* self.__sending
    connected,       \* self.connection.is_connected()
    message_queue,   \* self.message_queue, a FIFO of (message, headers, keyword_headers)
    idle_timeout,    \* self.idle_timeout
    pc,              \* position of the publisher thread in run()
    idle_time,       \* local idle_time of run()
    m,               \* local m of run(): the message taken from the queue
    fpc,             \* position of the exiting thread in _finalize()
    timeout,         \* argument timeout of _finalize()
    finalize_time,   \* local finalize_time of _finalize()
    sends,           \* history: number of send() calls completed
    stop_mark,       \* history: value of sends when stop() set the flag, -1 before
    stop_qlen,       \* history: queue length when stop() set the flag, -1 before
    wire,            \* history: the calls the connection object has received
    beats,           \* history: heart beat pauses completed since stop() set the flag
    qbeats           \* history: heart beat pauses completed over a non-empty queue
                     \*          since the last Queue.get

vars == <<should_stop, sending, connected, message_queue, idle_timeout, pc,
          idle_time, m, fpc, timeout, finalize_time, sends, stop_mark,
          stop_qlen, wire, beats, qbeats>>

worker_vars == <<pc, idle_time, m>>
finalize_vars == <<fpc, timeout, finalize_time>>
shared_vars == <<should_stop, sending, connected, message_queue, idle_timeout>>
hist_vars == <<sends, stop_mark, stop_qlen, wire, beats, qbeats>>

\* ------------------------------------------------------------ dictionaries
EmptyDict == [k \in {} |-> None]

DictSet(d, k, v) == [x \in (DOMAIN d) \cup {k} |-> IF x = k THEN v ELSE d[x]]

NoMessage == [message |-> 0, headers |-> EmptyDict, keyword_headers |-> EmptyDict]

\* ---------------------------------------------------------------- __init__
Init ==
    /\ should_stop = FALSE
    /\ sending = FALSE
    /\ connected = FALSE
    /\ message_queue = <<>>
    /\ idle_timeout \in IdleTimeouts
    /\ pc = "new"
    /\ idle_time = 0
    /\ m = NoMessage
    /\ fpc = "none"
    /\ timeout = 0
    /\ finalize_time = 0
    /\ sends = 0
    /\ stop_mark = -1
    /\ stop_qlen = -1
    /\ wire = <<>>
    /\ beats = 0
    /\ qbeats = 0

\* ------------------------------------------------------------------ send()
\* The argument tuples the callers pass: destination, headers (<<>> for None,
\* <<d>> for the dictionary d) and keyword_headers.
SendCalls ==
    { [destination |-> "/topic/t", headers |-> <<>>, keyword_headers |-> EmptyDict] }

\* Lines 107-113: the tuple m that send() builds.
SendTuple(destination, message, headers, keyword_headers) ==
    LET h   == IF headers = <<>> THEN EmptyDict ELSE headers[1]
        kw1 == IF destination # None
               THEN DictSet(keyword_headers, "destination", destination)
               ELSE keyword_headers
        kw2 == IF PUBLISHER_TIMESTAMP_HEADER \notin DOMAIN kw1
               THEN DictSet(kw1, PUBLISHER_TIMESTAMP_HEADER, Clock)
               ELSE kw1
    IN [message |-> message, headers |-> h, keyword_headers |-> kw2]

\* A queue that hands out the newest message first.
PutFront(q, x) == <<x>> \o q

\* A queue that holds one message and drops what does not fit.
PutDropping(q, x) == IF q # <<>> THEN q ELSE Append(q, x)

\* Line 115, Queue.put on the FIFO queue of line 91.
Put(q, x) == Append(q, x)

\* send(): callable in every state of the publisher thread.  The message
\* body is the number of the call, which makes the messages distinguishable.
Send(c) ==
    /\ sends < MaxMsgs
    /\ message_queue' = Put(message_queue,
           SendTuple(c.destination, sends + 1, c.headers, c.keyword_headers))
    /\ sends' = sends + 1
    /\ UNCHANGED <<should_stop, sending, connected, idle_timeout>>
    /\ UNCHANGED <<worker_vars, finalize_vars, stop_mark, stop_qlen, wire, beats, qbeats>>

\* ------------------------------------------------------------------ stop()
\* A stop() that flips the flag on every call.
StopToggling ==
    /\ should_stop' = ~should_stop
    /\ stop_mark' = sends
    /\ stop_qlen' = Len(message_queue)
    /\ UNCHANGED <<sending, connected, message_queue, idle_timeout>>
    /\ UNCHANGED <<worker_vars, finalize_vars, sends, wire, beats, qbeats>>

\* Lines 163-170.
Stop ==
    /\ IF ~should_stop
       THEN /\ should_stop' = TRUE
            /\ stop_mark' = sends
            /\ stop_qlen' = Len(message_queue)
       ELSE UNCHANGED <<should_stop, stop_mark, stop_qlen>>
    /\ UNCHANGED <<sending, connected, message_queue, idle_timeout>>
    /\ UNCHANGED <<worker_vars, finalize_vars, sends, wire, beats, qbeats>>

\* ----------------------------------------------------------- start(), run()
\* A call received by the connection object.
Call(op, ok, msg) == [op |-> op, ok |-> ok, m |-> msg]

\* Thread.start(): run() begins with idle_time = 0 (line 139).
Start ==
    /\ pc = "new"
    /\ pc' = "while_outer"
    /\ idle_time' = 0
    /\ UNCHANGED <<m, shared_vars, finalize_vars, hist_vars>>

\* An exit test that leaves run() on the stop flag alone.
AfterShouldStopExit(stop) == IF stop THEN "stopped" ELSE "while_inner"

\* An exit test that does not look at the stop flag.
AfterShouldStopIgnored(stop) == "while_inner"

\* Line 141: "not (A and B)" goes on to the second operand only when the
\* first, self.should_stop(), is true.
AfterShouldStop(stop) == IF stop THEN "while_outer_empty" ELSE "while_inner"

\* Line 141, first operand: self.should_stop() (lines 159-161).
WhileOuterStop ==
    /\ pc = "while_outer"
    /\ pc' = AfterShouldStop(should_stop)
    /\ UNCHANGED <<idle_time, m, shared_vars, finalize_vars, hist_vars>>

\* Line 141, second operand: self.message_queue.empty(); run() returns when
\* it is true.
WhileOuterEmpty ==
    /\ pc = "while_outer_empty"
    /\ pc' = IF message_queue = <<>> THEN "stopped" ELSE "while_inner"
    /\ UNCHANGED <<idle_time, m, shared_vars, finalize_vars, hist_vars>>

\* Line 143.
WhileInner ==
    /\ pc = "while_inner"
    /\ pc' = IF message_queue # <<>> THEN "set_sending" ELSE "sleep"
    /\ UNCHANGED <<idle_time, m, shared_vars, finalize_vars, hist_vars>>

\* A run() that takes the message without raising the indicator.
SetSendingForgotten ==
    /\ pc = "set_sending"
    /\ pc' = "get"
    /\ UNCHANGED <<idle_time, m, shared_vars, finalize_vars, hist_vars>>

\* Line 145.
SetSending ==
    /\ pc = "set_sending"
    /\ sending' = TRUE
    /\ pc' = "get"
    /\ UNCHANGED <<idle_time, m, should_stop, connected, message_queue, idle_timeout>>
    /\ UNCHANGED <<finalize_vars, hist_vars>>

\* Queue.get: the message taken and the queue left.
GetItem(q) == Head(q)

\* A get that leaves the message in the queue.
GetRestPeek(q) == q

GetRest(q) == Tail(q)

\* Line 146.  The publisher thread is the only consumer, so the queue it saw
\* non-empty at line 143 is still non-empty.
Get ==
    /\ pc = "get"
    /\ message_queue # <<>>
    /\ m' = GetItem(message_queue)
    /\ message_queue' = GetRest(message_queue)
    /\ pc' = "connect"
    /\ qbeats' = 0
    /\ UNCHANGED <<idle_time, should_stop, sending, connected, idle_timeout>>
    /\ UNCHANGED <<finalize_vars, sends, stop_mark, stop_qlen, wire, beats>>

\* A _connect() with its guard inverted.
ConnectWhenConnected(c) == c

\* A _connect() without its is_connected() guard.
AlwaysConnect(c) == TRUE

\* Lines 122-127, _connect(): the guard of the call.
NeedsConnect(c) == ~c

\* Line 147.  connection.start()/connect() either returns or raises.
Connect ==
    /\ pc = "connect"
    /\ IF NeedsConnect(connected)
       THEN \E ok \in BOOLEAN :
               /\ wire' = Append(wire, Call("connect", ok, NoMessage))
               /\ connected' = ok
               /\ pc' = IF ok THEN "send" ELSE "finally_raise"
       ELSE /\ pc' = "send"
            /\ UNCHANGED <<connected, wire>>
    /\ UNCHANGED <<idle_time, m, should_stop, sending, message_queue, idle_timeout>>
    /\ UNCHANGED <<finalize_vars, sends, stop_mark, stop_qlen, beats, qbeats>>

\* Lines 117-120 and 148, _send(m): connection.send either returns or raises.
Transmit ==
    /\ pc = "send"
    /\ \E ok \in BOOLEAN :
          /\ wire' = Append(wire, Call("send", ok, m))
          /\ pc' = IF ok THEN "finally" ELSE "finally_raise"
    /\ UNCHANGED <<idle_time, m, shared_vars>>
    /\ UNCHANGED <<finalize_vars, sends, stop_mark, stop_qlen, beats, qbeats>>

\* Where run() continues after the finally clause: line 151 when the try
\* block completed, out of run() when it raised (there is no except clause).
AfterFinally(raised) == IF raised THEN "crashed" ELSE "while_inner"

\* Lines 149-151 after a try block that completed.
Finally ==
    /\ pc = "finally"
    /\ sending' = FALSE
    /\ idle_time' = 0
    /\ pc' = AfterFinally(FALSE)
    /\ UNCHANGED <<m, should_stop, connected, message_queue, idle_timeout>>
    /\ UNCHANGED <<finalize_vars, hist_vars>>

\* An exception that leaves run() without passing a finally clause.
FinallyRaiseSkipped ==
    /\ pc = "finally_raise"
    /\ pc' = AfterFinally(TRUE)
    /\ UNCHANGED <<idle_time, m, shared_vars, finalize_vars, hist_vars>>

\* Lines 149-150 with an exception pending: the exception leaves run().
FinallyRaise ==
    /\ pc = "finally_raise"
    /\ sending' = FALSE
    /\ pc' = AfterFinally(TRUE)
    /\ UNCHANGED <<idle_time, m, should_stop, connected, message_queue, idle_timeout>>
    /\ UNCHANGED <<finalize_vars, hist_vars>>

\* Line 154, held at IdleCap.
IdleAfterBeat(t) == IF t + BEAT_TIME > IdleCap THEN IdleCap ELSE t + BEAT_TIME

\* The idle test made on the timer as it was before the pause was added.
IdleExceededBeforeBeat(t, limit) == t - BEAT_TIME >= limit /\ limit > -10

\* Line 156: idle_time >= self.idle_timeout > -1 (one second is 10 tenths).
IdleExceeded(t, limit) == t >= limit /\ limit > -10

\* Lines 153-157: the heart beat pause, the idle timer and the idle disconnect
\* (_disconnect, lines 129-133).
HeartBeat ==
    /\ pc = "sleep"
    /\ idle_time' = IdleAfterBeat(idle_time)
    /\ IF IdleExceeded(idle_time', idle_timeout) /\ connected
       THEN /\ connected' = FALSE
            /\ wire' = Append(wire, Call("stop", TRUE, NoMessage))
       ELSE UNCHANGED <<connected, wire>>
    /\ beats' = IF should_stop THEN beats + 1 ELSE beats
    /\ qbeats' = IF message_queue # <<>> THEN qbeats + 1 ELSE 0
    /\ pc' = "while_outer"
    /\ UNCHANGED <<m, should_stop, sending, message_queue, idle_timeout>>
    /\ UNCHANGED <<finalize_vars, sends, stop_mark, stop_qlen>>

\* ------------------------------------------------------------- _finalize()
\* The atexit handler is called with the timeout given to addExitHandler.
FinalizeCall(t) ==
    /\ fpc = "none"
    /\ fpc' = "while_empty"
    /\ timeout' = t
    /\ finalize_time' = 0
    /\ UNCHANGED <<shared_vars, worker_vars, hist_vars>>

\* Line 193, first operand: not self.message_queue.empty().
FinalizeWhileEmpty ==
    /\ fpc = "while_empty"
    /\ fpc' = IF message_queue # <<>> THEN "if_timeout" ELSE "while_sending"
    /\ UNCHANGED <<timeout, finalize_time, shared_vars, worker_vars, hist_vars>>

\* Line 193, second operand: self.__sending.
FinalizeWhileSending ==
    /\ fpc = "while_sending"
    /\ fpc' = IF sending THEN "if_timeout" ELSE "returned"
    /\ UNCHANGED <<timeout, finalize_time, shared_vars, worker_vars, hist_vars>>

\* A timeout test that counts the pause not yet taken.
TimedOutEarly(t, limit) == t + BEAT_TIME >= limit /\ limit > -10

\* A timeout test with > in the place of >=.
TimedOutLate(t, limit) == t > limit /\ limit > -10

\* Line 194: finalize_time >= timeout > -1 (one second is 10 tenths).
TimedOut(t, limit) == t >= limit /\ limit > -10

\* Lines 194-195.
FinalizeIfTimeout ==
    /\ fpc = "if_timeout"
    /\ fpc' = IF TimedOut(finalize_time, timeout) THEN "returned" ELSE "sleep"
    /\ UNCHANGED <<timeout, finalize_time, shared_vars, worker_vars, hist_vars>>

\* Line 197, held at FinCap.
FinalizeAfterBeat(t) == IF t + BEAT_TIME > FinCap THEN FinCap ELSE t + BEAT_TIME

\* Lines 196-197.
FinalizeSleep ==
    /\ fpc = "sleep"
    /\ finalize_time' = FinalizeAfterBeat(finalize_time)
    /\ fpc' = "while_empty"
    /\ UNCHANGED <<timeout, shared_vars, worker_vars, hist_vars>>

\* ----------------------------------------------------------- specification
Worker ==
    \/ Start
    \/ WhileOuterStop
    \/ WhileOuterEmpty
    \/ WhileInner
    \/ SetSending
    \/ Get
    \/ Connect
    \/ Transmit
    \/ Finally
    \/ FinallyRaise
    \/ HeartBeat

Finalizer ==
    \/ \E t \in ExitTimeouts : FinalizeCall(t)
    \/ FinalizeWhileEmpty
    \/ FinalizeWhileSending
    \/ FinalizeIfTimeout
    \/ FinalizeSleep

Next ==
    \/ \E c \in SendCalls : Send(c)
    \/ Stop
    \/ Worker
    \/ Finalizer

Spec == Init /\ [][Next]_vars

\* ------------------------------------------------------- derived histories
\* Positions of wire holding a call of the given kind.
CallsOf(op) == { i \in DOMAIN wire : wire[i].op = op }

\* Bodies of the messages for which connection.send was called.
Attempted == { wire[i].m.message : i \in CallsOf("send") }

\* Bodies of the messages in the queue.
Queued == { message_queue[i].message : i \in DOMAIN message_queue }

\* Bodies of the messages that were in the queue when stop() set the flag.
QueuedAtStop == (stop_mark - stop_qlen + 1) .. stop_mark

\* Positions at which run() is over: returned, or left by an exception.
Exited == {"stopped", "crashed"}

\* ------------------------------------------------------------------ claims

\* C1: Graceful stop drains the queue: when run() exits after stop() was
\* called, every message that was in the queue at the time of stop() has been
\* taken from the queue and handed to connection.send, and none of the
\* messages enqueued before stop() is still in the queue.
C1_GracefulStopDrains ==
    [][ (should_stop /\ pc \notin Exited /\ pc' \in Exited)
        => /\ QueuedAtStop \subseteq Attempted'
           /\ \A b \in Queued' : b > stop_mark ]_vars

\* C2: FIFO order: the connection receives the messages in the order in which
\* send() enqueued them (message bodies number the send() calls), and every
\* message still queued or in flight was enqueued after all those received.
C2_FifoOrder ==
    /\ \A i, j \in CallsOf("send") :
          i < j => wire[i].m.message < wire[j].m.message
    /\ \A i \in CallsOf("send") : \A b \in Queued : wire[i].m.message < b
    /\ \A i \in DOMAIN message_queue : \A j \in DOMAIN message_queue :
          i < j => message_queue[i].message < message_queue[j].message

C2_Witness ==
    /\ Cardinality(CallsOf("send")) = MaxMsgs
    /\ \E i \in CallsOf("send") : wire[i].m.message = MaxMsgs /\ i = Len(wire)

\* C3: A failure of connect() or of transmit() does not terminate the
\* publisher thread: whenever a call on the connection has failed, run() has
\* not been left by an exception.
C3_FailureKeepsWorkerRunning ==
    (\E i \in DOMAIN wire : ~wire[i].ok) => pc # "crashed"

\* C4: Exit flush respects its timeout: with a timeout T >= 0, _finalize()
\* never begins a pause once its elapsed-time counter has reached T, so the
\* counter stays below T + BEAT_TIME whatever the publisher thread does; with
\* T = 0 it never pauses; and no step of _finalize() waits for another thread.
C4_ExitFlushRespectsTimeout ==
    (fpc # "none" /\ timeout >= 0)
    => /\ (fpc = "sleep" => finalize_time < timeout)
       /\ finalize_time < timeout + BEAT_TIME
       /\ (timeout = 0 => finalize_time = 0)
       /\ (fpc # "returned" => ENABLED Finalizer)

\* _finalize(0.5) has returned after two pauses while the publisher thread is
\* still inside connection.send and another message is queued.
C4_Witness ==
    /\ fpc = "returned"
    /\ timeout = 5
    /\ finalize_time = 2 * BEAT_TIME
    /\ pc = "send"
    /\ sending
    /\ message_queue # <<>>

\* C5: Idle disconnect: with idle_timeout T >= 0, a heart beat disconnects a
\* connected connection exactly when the idle timer it has just advanced is
\* >= T; the timer then lies between T and T + BEAT_TIME; and the heart beat
\* leaves the queue as it is.
C5_IdleDisconnect ==
    [][ (pc = "sleep" /\ pc' # "sleep" /\ idle_timeout >= 0)
        => /\ message_queue' = message_queue
           /\ (connected /\ idle_time' >= idle_timeout
                 => /\ ~connected'
                    /\ wire' = Append(wire, Call("stop", TRUE, NoMessage))
                    /\ idle_time' <= idle_timeout + BEAT_TIME)
           /\ (~(connected /\ idle_time' >= idle_timeout)
                 => /\ connected' = connected
                    /\ wire' = wire) ]_vars

\* With idle_timeout = 0.5 the second heart beat after the last transmit has
\* disconnected, with a message waiting in the queue.
C5_Witness ==
    /\ idle_timeout = 5
    /\ wire # <<>>
    /\ wire[Len(wire)].op = "stop"
    /\ idle_time = 2 * BEAT_TIME
    /\ pc = "while_outer"
    /\ message_queue # <<>>

\* C6: Never-disconnect: with a negative idle_timeout the connection never
\* receives a disconnect.
C6_NeverDisconnect ==
    idle_timeout < 0 => CallsOf("stop") = {}

\* C7: Reconnection: the call that follows a disconnect on the connection is
\* a connect, the call that follows that connect is a transmit, a connect is
\* only ever the first call or the call after a disconnect, and a queued
\* message waits through at most one heart beat before it is taken.
C7_Reconnection ==
    /\ \A i \in CallsOf("stop") :
          /\ i + 1 \in DOMAIN wire => wire[i + 1].op = "connect"
          /\ i + 2 \in DOMAIN wire => wire[i + 2].op = "send"
    /\ \A i \in CallsOf("connect") : i = 1 \/ wire[i - 1].op = "stop"
    /\ qbeats <= 1

\* A message sent after an idle disconnect has been transmitted after one
\* connect.
C7_Witness ==
    /\ Len(wire) >= 5
    /\ wire[Len(wire) - 2].op = "stop"
    /\ wire[Len(wire) - 1].op = "connect"
    /\ wire[Len(wire)].op = "send"
    /\ wire[Len(wire)].ok

\* C8: Stop responsiveness: when stop() found the queue empty and no send()
\* followed, the publisher thread completes at most one heart beat after the
\* flag was set, and after that heart beat it is in the exit test of run() or
\* has returned.
C8_StopResponsiveness ==
    (should_stop /\ stop_qlen = 0 /\ sends = stop_mark)
    => /\ beats <= 1
       /\ (beats = 1 => pc \in {"while_outer", "while_outer_empty", "stopped"})

\* run() has returned after one heart beat that followed stop().
C8_Witness ==
    /\ should_stop
    /\ stop_qlen = 0
    /\ sends = stop_mark
    /\ beats = 1
    /\ pc = "stopped"

\* C9: Final disconnect: whenever run() has returned, the connection is
\* disconnected.
C9_StoppedIsDisconnected ==
    pc = "stopped" => ~connected

\* C10: send() is a pure enqueue: in every state of the publisher thread a
\* send() appends one message to the tail of the queue and changes nothing
\* else of the publisher, and a send() is possible in every state.
C10_SendIsPureEnqueue ==
    [][ /\ (sends < MaxMsgs => ENABLED (\E c \in SendCalls : Send(c)))
        /\ (sends' # sends
             => /\ Len(message_queue') = Len(message_queue) + 1
                /\ SubSeq(message_queue', 1, Len(message_queue)) = message_queue
                /\ message_queue'[Len(message_queue')].message = sends'
                /\ UNCHANGED <<should_stop, sending, connected, idle_timeout>>
                /\ UNCHANGED <<worker_vars, finalize_vars, wire>>) ]_vars

\* A message enqueued after run() has returned.
C10_Witness ==
    /\ pc = "stopped"
    /\ sends > stop_mark
    /\ Len(message_queue) = 1
    /\ message_queue[1].message = sends

\* C11: stop() is idempotent and touches only the stop flag: a call made when
\* the flag is clear sets it, a call made when it is set changes nothing, no
\* step of any thread clears the flag, and a call leaves the queue, the
\* connection, the sending indicator and both other threads as they are.
C11_StopIdempotent ==
    [][ /\ (should_stop => should_stop')
        /\ ENABLED Stop
        /\ (Stop => /\ should_stop'
                    /\ (should_stop => UNCHANGED vars)
                    /\ UNCHANGED <<sending, connected, message_queue, idle_timeout>>
                    /\ UNCHANGED <<worker_vars, finalize_vars, wire>>) ]_vars

\* stop() was called while a message was being transmitted, with others
\* queued and the connection up: all of it is still there.
C11_Witness ==
    /\ should_stop
    /\ stop_qlen = 2
    /\ Len(message_queue) = 2
    /\ connected
    /\ sending
    /\ pc = "send"

\* ------------------------------------------- send() with all argument shapes
\* Every shape of call: with and without destination, headers None, empty or
\* filled, the time stamp given in headers, in keyword_headers, in both or
\* not at all.  The caller's time stamps differ from what the clock returns.
SendCallsWide ==
    [ destination : {None, "/topic/t"},
      headers : { <<>>, <<EmptyDict>>, <<[a |-> "1"]>>,
                  <<DictSet(EmptyDict, PUBLISHER_TIMESTAMP_HEADER, "caller_h")>>,
                  <<DictSet([a |-> "1"], PUBLISHER_TIMESTAMP_HEADER, "caller_h")>> },
      keyword_headers : { EmptyDict, [a |-> "2"],
                          DictSet(EmptyDict, PUBLISHER_TIMESTAMP_HEADER, "caller_k"),
                          DictSet([a |-> "2"], PUBLISHER_TIMESTAMP_HEADER, "caller_k") } ]

\* Lines 104-105 and 120: connection.send(message, headers, **keyword_headers)
\* merges the two dictionaries, keyword_headers taking precedence.
Merge(headers, keyword_headers) ==
    [x \in (DOMAIN headers) \cup (DOMAIN keyword_headers) |->
        IF x \in DOMAIN keyword_headers THEN keyword_headers[x] ELSE headers[x]]

\* One send() of any shape.
SendOnce(c) == sends = 0 /\ Send(c)

NextSend ==
    \/ \E c \in SendCallsWide : SendOnce(c)
    \/ Stop
    \/ Worker

\* One message of any shape, sent through the publisher thread.
SpecSend == Init /\ [][NextSend]_vars

\* C12: Time stamp injection: the headers the connection transmits (headers
\* merged with keyword_headers) contain the time stamp field, and when the
\* caller gave the field in headers the transmitted value is a caller's
\* value, not the clock's.
C12_TimestampInjection ==
    \A i \in CallsOf("send") :
       LET h == wire[i].m.headers
           t == Merge(h, wire[i].m.keyword_headers)
       IN /\ PUBLISHER_TIMESTAMP_HEADER \in DOMAIN t
          /\ (PUBLISHER_TIMESTAMP_HEADER \in DOMAIN h
                => t[PUBLISHER_TIMESTAMP_HEADER] # Clock)

\* C13: Exit flush return condition: _finalize() returns before its timeout
\* has elapsed, or with a negative timeout returns at all, only from a check
\* that found the queue empty and then the sending indicator false.
C13_ReturnsOnlyWhenFlushed ==
    [][ (fpc # "returned" /\ fpc' = "returned"
           /\ (timeout < 0 \/ finalize_time < timeout))
        => (fpc = "while_sending" /\ ~sending) ]_vars

\* The tuples send() has enqueued so far.
Enqueued ==
    { SendTuple(c.destination, b, c.headers, c.keyword_headers) :
        c \in SendCalls, b \in 1 .. sends }

\* The state part of C14.
ConsumedOnceNow ==
    /\ Cardinality(Attempted) = Cardinality(CallsOf("send"))
    /\ Attempted \cap Queued = {}
    /\ Cardinality(Queued) = Len(message_queue)
    /\ (m # NoMessage => m.message \notin Queued)
    /\ \A i \in CallsOf("send") : wire[i].m \in Enqueued

\* C14: Each message is consumed once: no message is handed to
\* connection.send twice, a message taken from the queue is not in the queue
\* any more and never comes back, no message is in the queue twice, and what
\* the connection is given is a tuple that send() enqueued before.
C14_ConsumedOnce ==
    [][ /\ ConsumedOnceNow
        /\ ConsumedOnceNow'
        /\ \A b \in Queued' : b \in Queued \/ (b = sends' /\ sends' # sends) ]_vars

\* A transmit has failed and the publisher thread has ended: the message is
\* not in the queue again, the later ones still are.
C14_Witness ==
    /\ pc = "crashed"
    /\ wire # <<>>
    /\ wire[Len(wire)].op = "send"
    /\ ~wire[Len(wire)].ok
    /\ wire[Len(wire)].m.message = 1
    /\ Queued = {2, 3}

\* C15: Exit flush with a publisher thread that was never started: from a
\* check of _finalize() with timeout T >= 0 that finds the queue non-empty,
\* the handler never gets past the queue test, returns only once
\* finalize_time >= T, and its steps leave the queue, the stop flag and the
\* connection as they are; nothing is transmitted while the thread is not
\* started.
C15_NeverStartedWaitsFullTimeout ==
    [][ /\ (pc = "new" => wire = <<>> /\ ~sending)
        /\ (pc = "new" /\ message_queue # <<>> /\ timeout >= 0
              /\ fpc \in {"while_empty", "if_timeout", "sleep"}
            => /\ fpc' # "while_sending"
               /\ (fpc' = "returned" => finalize_time' >= timeout)
               /\ (fpc' # fpc
                     => UNCHANGED <<message_queue, should_stop, sending,
                                    connected, wire, pc>>)) ]_vars

\* _finalize(0.5) has returned after two pauses; the thread was never
\* started, all messages are still queued and stop() was not called.
C15_Witness ==
    /\ pc = "new"
    /\ fpc = "returned"
    /\ timeout = 5
    /\ finalize_time = 2 * BEAT_TIME
    /\ Len(message_queue) = MaxMsgs
    /\ ~should_stop
    /\ wire = <<>>

\* ------------------------------------- the publisher with a reliable broker
\* Line 147 when connection.start()/connect() does not raise.
ConnectOk == Connect /\ pc' # "finally_raise"

\* Line 148 when connection.send does not raise.
TransmitOk == Transmit /\ pc' # "finally_raise"

\* The steps of run() once the thread has been started.
RunOk ==
    \/ WhileOuterStop
    \/ WhileOuterEmpty
    \/ WhileInner
    \/ SetSending
    \/ Get
    \/ ConnectOk
    \/ TransmitOk
    \/ Finally
    \/ HeartBeat

NextLive ==
    \/ \E c \in SendCalls : Send(c)
    \/ Stop
    \/ Start
    \/ RunOk

\* Callers, and a publisher thread that, once started, is scheduled again
\* and again (weak fairness of its steps) and whose broker calls succeed.
SpecLive == Init /\ [][NextLive]_vars /\ WF_vars(RunOk)

\* C16: Eventual delivery: with a started, fairly scheduled publisher thread
\* and a broker that does not fail, every message that is in the queue while
\* run() has not returned is eventually handed to connection.send.
C16_EventualDelivery ==
    \A b \in 1 .. MaxMsgs :
       (b \in Queued /\ pc \notin {"new", "stopped"}) ~> (b \in Attempted)

\* All messages were transmitted although stop() came with messages queued
\* and an idle disconnect happened in between.
C16_Witness ==
    /\ pc = "stopped"
    /\ stop_qlen >= 1
    /\ CallsOf("stop") # {}
    /\ Attempted = 1 .. MaxMsgs

\* Positions of run() inside the try block of lines 144-148 and its finally
\* clause, and those at which a message has been taken from the queue and
\* connection.send has not yet returned or raised.
InTry == {"get", "connect", "send", "finally", "finally_raise"}

InFlight == {"connect", "send"}

\* The state part of C17.
IndicatorCoversTry == pc \in InTry => sending

\* C17: No unobserved in-flight message: the sending indicator is true from
\* before the message is taken until the transmit has returned or failed, so
\* with the queue empty and the indicator false no message is in flight; and
\* when _finalize() returns on "queue empty and not sending" no message is in
\* flight.
C17_NoUnobservedInFlight ==
    [][ /\ IndicatorCoversTry
        /\ IndicatorCoversTry'
        /\ (message_queue = <<>> /\ ~sending => pc \notin InFlight)
        /\ (fpc = "while_sending" /\ fpc' = "returned" => pc \notin InFlight) ]_vars

\* _finalize(-1) found the message queued or in flight, waited one pause and
\* returned after the transmit.
C17_Witness ==
    /\ fpc = "returned"
    /\ timeout = -10
    /\ finalize_time = BEAT_TIME
    /\ sends = 1
    /\ Attempted = {1}
    /\ message_queue = <<>>
    /\ ~sending

\* C18: The sending indicator is false whenever the publisher thread is not
\* in its get-connect-transmit step: before start(), at the loop tests, in
\* the heart beat pause, after run() has returned and after an exception of
\* connect or transmit has ended the thread.
C18_IndicatorFalseOutsideTry ==
    pc \notin InTry => ~sending

\* A failed call has ended the thread with the queue empty; the indicator is
\* false and _finalize(-1) has returned without a pause.
C18_Witness ==
    /\ pc = "crashed"
    /\ ~sending
    /\ wire # <<>>
    /\ ~wire[Len(wire)].ok
    /\ message_queue = <<>>
    /\ fpc = "returned"
    /\ timeout = -10
    /\ finalize_time = 0

\* Whether the connection is up after the first k calls it received: its
\* last connect or disconnect among them is a connect that returned.
UpAfter(k) ==
    LET switches == { i \in 1 .. k : wire[i].op \in {"connect", "stop"} }
    IN /\ switches # {}
       /\ LET last == CHOOSE i \in switches : \A j \in switches : j <= i
          IN wire[last].op = "connect" /\ wire[last].ok

\* C19: Connection calls are guarded by the connection status: every connect
\* reaches a connection that is down, every disconnect and every transmit one
\* that is up, is_connected() agrees with the calls made, and run() is at
\* its transmit only with the connection up.
C19_CallsGuardedByStatus ==
    /\ \A i \in CallsOf("connect") : ~UpAfter(i - 1)
    /\ \A i \in CallsOf("stop") : UpAfter(i - 1)
    /\ \A i \in CallsOf("send") : UpAfter(i - 1)
    /\ connected = UpAfter(Len(wire))
    /\ (pc = "send" => connected)

\* Two rounds of connect, transmit and idle disconnect.
C19_Witness ==
    /\ Len(wire) = 6
    /\ Cardinality(CallsOf("connect")) = 2
    /\ Cardinality(CallsOf("stop")) = 2
    /\ ~connected

\* C20: Normal exit and late sends: run() returns only from the test that
\* finds the queue empty with the stop flag set; once it has returned it
\* stays returned, takes nothing from the queue and calls the connection no
\* more, so a message enqueued afterwards stays in the queue.
C20_ExitAndLateSends ==
    [][ /\ (pc # "stopped" /\ pc' = "stopped"
              => pc = "while_outer_empty" /\ should_stop /\ message_queue = <<>>)
        /\ (pc = "stopped"
              => /\ pc' = "stopped"
                 /\ wire' = wire
                 /\ m' = m
                 /\ Len(message_queue') >= Len(message_queue)
                 /\ SubSeq(message_queue', 1, Len(message_queue)) = message_queue) ]_vars

\* Two messages were enqueued after run() had returned; only the first
\* message was ever transmitted.
C20_Witness ==
    /\ pc = "stopped"
    /\ Attempted = {1}
    /\ Queued = {2, 3}
    /\ stop_mark = 1

====
